---- MODULE Spec2Model ----
(***************************************************************************)
(* Model of web/static/js/app.js: the PitchAnalyzerApp upload controller   *)
(* (validate, upload, render, error) and the free-standing resetApp.       *)
(*                                                                         *)
(* JavaScript is single-threaded: every event handler runs to its next     *)
(* await without interleaving, so one action models one handler run or one *)
(* continuation of the async handleFileUpload.  The two awaits of lines 80 *)
(* and 85 have no code between them, so they are one suspension: a request *)
(* is pending until fetch or response.json() rejects, or response.json()   *)
(* resolves.  The dragover hover class (lines 28-36, 40) is presentation   *)
(* only and is left out.                                                   *)
(*                                                                         *)
(* Strings that the code takes apart (file names) are sequences of         *)
(* one-character strings; strings it only stores are TLA+ strings.         *)
(* Numbers of a server response are given in thousandths (1234 = 1.234).   *)
(***************************************************************************)
EXTENDS Integers, Sequences, FiniteSets, TLC

VARIABLES
    dom,          \* style.display of the three sections, text of the output regions
    fileInput,    \* the FileList held by the <input type=file> (value = '' iff empty)
    audioPlayer,  \* children of the #audioPlayer mount point (audio elements)
    urls,         \* every object URL ever created, with the number of revocations
    requests,     \* the handleFileUpload runs suspended at their await, oldest first
    issued,       \* number of fetch calls made so far
    lastEvent     \* the handler that ran last and its input (history)

vars == <<dom, fileInput, audioPlayer, urls, requests, issued, lastEvent>>

-----------------------------------------------------------------------------
(* Bounds *)

MaxRequests == 2      \* uploads that reach fetch in one run
MaxEnded == 2         \* 'ended' events delivered to one audio element
MaxNameLen == 5       \* length of the generated file names
SizeSpread == 2       \* sizes checked on each side of the limit

-----------------------------------------------------------------------------
(* Strings *)

UpperChars == <<"A","B","C","D","E","F","G","H","I","J","K","L","M",
                "N","O","P","Q","R","S","T","U","V","W","X","Y","Z">>
LowerChars == <<"a","b","c","d","e","f","g","h","i","j","k","l","m",
                "n","o","p","q","r","s","t","u","v","w","x","y","z">>

UpperSet == { UpperChars[i] : i \in 1..26 }
LowerOf == [ c \in UpperSet |-> LowerChars[CHOOSE i \in 1..26 : UpperChars[i] = c] ]

\* String.prototype.toLowerCase, one character
toLowerCaseChar(c) == IF c \in UpperSet THEN LowerOf[c] ELSE c

\* String.prototype.toLowerCase
toLowerCase(s) == [i \in 1..Len(s) |-> toLowerCaseChar(s[i])]

\* the pieces of s from position start on, k being the scan position
RECURSIVE splitFrom(_, _, _, _)
splitFrom(s, sep, start, k) ==
    IF k > Len(s) THEN << SubSeq(s, start, Len(s)) >>
    ELSE IF s[k] = sep
         THEN << SubSeq(s, start, k - 1) >> \o splitFrom(s, sep, k + 1, k + 1)
         ELSE splitFrom(s, sep, start, k + 1)

\* String.prototype.split(sep) for a one-character separator
split(s, sep) == splitFrom(s, sep, 1, 1)

\* Array.prototype.pop: the last element (split never returns an empty array)
pop(a) == a[Len(a)]

\* line 57: file.name.split('.').pop().toLowerCase()
fileExtension(name) == toLowerCase(pop(split(name, ".")))

\* line 58
allowedExtensions ==
    { <<"m","p","3">>, <<"w","a","v">>, <<"o","g","g">>, <<"m","4","a">> }

\* line 66: 16 * 1024 * 1024
MaxFileSize == 16 * 1024 * 1024

\* messages of lines 61, 67, 92, 97, 142 (the Japanese literals, in English)
MsgUnsupported == "Unsupported file format. Select an MP3, WAV, OGG or M4A file."
MsgTooLarge == "The file is too large. Select a file of 16MB or less."
MsgUnknown == "An unknown error occurred"
MsgNetwork == "A network error occurred. Check your internet connection."
MsgDisplay == "An error occurred while displaying the results"
\* unit suffix of line 127 (the Japanese word for seconds)
SecondsSuffix == " sec"

-----------------------------------------------------------------------------
(* Numbers *)

RECURSIVE Pow10(_)
Pow10(n) == IF n = 0 THEN 1 ELSE 10 * Pow10(n - 1)

\* the last d decimal digits of n, zero padded
RECURSIVE Digits(_, _)
Digits(n, d) == IF d = 0 THEN "" ELSE Digits(n \div 10, d - 1) \o ToString(n % 10)

\* Number.prototype.toFixed(d) of x thousandths, d in 0..3; ties round away
\* from zero, as toFixed does for values that are exact in binary
RECURSIVE toFixed(_, _)
toFixed(x, d) ==
    IF x < 0 THEN "-" \o toFixed(-x, d)
    ELSE LET unit == Pow10(3 - d)
             n    == (x + unit \div 2) \div unit
         IN  IF d = 0 THEN ToString(n)
             ELSE ToString(n \div Pow10(d)) \o "." \o Digits(n % Pow10(d), d)

-----------------------------------------------------------------------------
(* The document *)

Sections == {"loadingSection", "resultsSection", "errorSection"}

\* The page as it is served: sections hidden, output regions empty
IdleDocument ==
    [ loadingSection |-> "none", resultsSection |-> "none", errorSection |-> "none",
      errorMessage |-> "",
      wordText |-> "", phoneticText |-> "", meanPitch |-> "", pitchRange |-> "",
      duration |-> "", plotSrc |-> "", plotDisplay |-> "none" ]

Visible(d, s) == d[s] = "block"
VisibleSections(d) == { s \in Sections : Visible(d, s) }

\* lines 182-194
hideAllSections(d) ==
    [d EXCEPT !.loadingSection = "none", !.resultsSection = "none",
              !.errorSection = "none"]

\* lines 101-106
showLoading_NoHide(d) == [d EXCEPT !.loadingSection = "block"]
showLoading(d) == [hideAllSections(d) EXCEPT !.loadingSection = "block"]

\* lines 171-180
showError_NoHide(d, message) ==
    [d EXCEPT !.errorMessage = message, !.errorSection = "block"]
showError(d, message) ==
    [hideAllSections(d) EXCEPT !.errorMessage = message, !.errorSection = "block"]

-----------------------------------------------------------------------------
(* addAudioPlayer, lines 146-169: the mount point is emptied, a new audio  *)
(* element is given a fresh object URL and appended.  An audio element is  *)
(* identified by the index of its URL in urls.                             *)

addAudioPlayer(player, us, file) ==
    [ audioPlayer |-> << [src |-> Len(us) + 1] >>,
      urls        |-> Append(us, [file |-> file, revoked |-> 0]) ]

-----------------------------------------------------------------------------
(* displayResults, lines 108-144 *)

Has(obj, key) == key \in DOMAIN obj

\* line 118: result.stats && Object.keys(result.stats).length > 0
StatsPresent_NoEmptyCheck(result) == Has(result, "stats")
StatsPresent(result) ==
    Has(result, "stats") /\ Cardinality(DOMAIN result.stats) > 0

\* the statement of the try block that throws a TypeError (x.toFixed of an
\* undefined x), or "none"
ThrowsAt(result) ==
    IF StatsPresent(result) /\ ~Has(result.stats, "mean_pitch") THEN "meanPitch"
    ELSE IF StatsPresent(result)
            /\ (~Has(result.stats, "min_pitch") \/ ~Has(result.stats, "max_pitch"))
         THEN "pitchRange"
    ELSE IF ~Has(result, "duration") THEN "duration"
    ELSE "none"

\* lines 114-115
RenderText(d, result) ==
    [d EXCEPT !.wordText = result.word, !.phoneticText = result.phonetic]

\* lines 118-125, as far as they run
RenderStats_StaleRange(d, result) ==
    IF StatsPresent(result)
    THEN IF ThrowsAt(result) = "meanPitch" THEN d
         ELSE LET d1 == [d EXCEPT !.meanPitch =
                                    toFixed(result.stats.mean_pitch, 1) \o " Hz"]
              IN  IF ThrowsAt(result) = "pitchRange" THEN d1
                  ELSE [d1 EXCEPT !.pitchRange =
                           toFixed(result.stats.min_pitch, 1) \o " - "
                           \o toFixed(result.stats.max_pitch, 1) \o " Hz"]
    ELSE [d EXCEPT !.meanPitch = "N/A"]
RenderStats(d, result) ==
    IF StatsPresent(result)
    THEN IF ThrowsAt(result) = "meanPitch" THEN d
         ELSE LET d1 == [d EXCEPT !.meanPitch =
                                    toFixed(result.stats.mean_pitch, 1) \o " Hz"]
              IN  IF ThrowsAt(result) = "pitchRange" THEN d1
                  ELSE [d1 EXCEPT !.pitchRange =
                           toFixed(result.stats.min_pitch, 1) \o " - "
                           \o toFixed(result.stats.max_pitch, 1) \o " Hz"]
    ELSE [d EXCEPT !.meanPitch = "N/A", !.pitchRange = "N/A"]

\* lines 127-132
RenderDurationAndPlot(d, result) ==
    [d EXCEPT !.duration = toFixed(result.duration, 2) \o SecondsSuffix,
              !.plotSrc = "data:image/png;base64," \o result.plot,
              !.plotDisplay = "block"]

displayResults_NoCatch(d, player, us, result, file) ==
    LET d2 == RenderStats(RenderText(hideAllSections(d), result), result)
    IN  IF ThrowsAt(result) # "none"
        THEN [ dom |-> showError(d2, MsgNetwork),
               audioPlayer |-> player, urls |-> us ]
        ELSE LET a == addAudioPlayer(player, us, file)
             IN  [ dom |-> [RenderDurationAndPlot(d2, result)
                               EXCEPT !.resultsSection = "block"],
                   audioPlayer |-> a.audioPlayer, urls |-> a.urls ]

displayResults(d, player, us, result, file) ==
    LET d2 == RenderStats(RenderText(hideAllSections(d), result), result)
    IN  IF ThrowsAt(result) # "none"
        THEN \* lines 140-143
             [ dom |-> showError(d2, MsgDisplay),
               audioPlayer |-> player, urls |-> us ]
        ELSE LET a == addAudioPlayer(player, us, file)
             IN  [ dom |-> [RenderDurationAndPlot(d2, result)
                               EXCEPT !.resultsSection = "block"],
                   audioPlayer |-> a.audioPlayer, urls |-> a.urls ]

-----------------------------------------------------------------------------
(* handleFileUpload, lines 54-99 *)

\* lines 56-69: "format" and "size" are the two early returns
Validate_SizeGE(file) ==
    IF fileExtension(file.name) \notin allowedExtensions THEN "format"
    ELSE IF file.size >= MaxFileSize THEN "size"
    ELSE "ok"
Validate(file) ==
    IF fileExtension(file.name) \notin allowedExtensions THEN "format"
    ELSE IF file.size > MaxFileSize THEN "size"
    ELSE "ok"

\* line 80: the run suspended at a fetch that has just been issued; id numbers
\* the runs, shown is the set of sections visible at the call, fetches counts
\* the fetch calls of the run
NewRequest(id, file, shown) ==
    [ id |-> id, file |-> file, fetches |-> 1, shown |-> shown ]

\* lines 54-80: the run of handleFileUpload up to its first await; n is the
\* number of fetch calls made before
handleFileUpload_NoReturn(d, rs, n, file) ==
    LET v == Validate(file)
    IN  IF v = "format"
        THEN [ dom |-> showError(d, MsgUnsupported), requests |-> rs, issued |-> n ]
        ELSE LET d0 == IF v = "size" THEN showError(d, MsgTooLarge) ELSE d
                 d1 == showLoading(d0)
             IN  [ dom |-> d1,
                   requests |-> Append(rs, NewRequest(n + 1, file,
                                                      VisibleSections(d1))),
                   issued |-> n + 1 ]
handleFileUpload_FetchFirst(d, rs, n, file) ==
    LET v == Validate(file)
    IN  IF v = "format"
        THEN [ dom |-> showError(d, MsgUnsupported), requests |-> rs, issued |-> n ]
        ELSE IF v = "size"
        THEN [ dom |-> showError(d, MsgTooLarge), requests |-> rs, issued |-> n ]
        ELSE [ dom |-> showLoading(d),
               requests |-> Append(rs, NewRequest(n + 1, file, VisibleSections(d))),
               issued |-> n + 1 ]
handleFileUpload(d, rs, n, file) ==
    LET v == Validate(file)
    IN  IF v = "format"
        THEN [ dom |-> showError(d, MsgUnsupported), requests |-> rs, issued |-> n ]
        ELSE IF v = "size"
        THEN [ dom |-> showError(d, MsgTooLarge), requests |-> rs, issued |-> n ]
        ELSE LET d1 == showLoading(d)
             IN  [ dom |-> d1,
                   requests |-> Append(rs, NewRequest(n + 1, file,
                                                      VisibleSections(d1))),
                   issued |-> n + 1 ]

\* line 92: result.error || fallback
ErrorText_Nullish(result) ==
    IF Has(result, "error") THEN result.error ELSE MsgUnknown
ErrorText(result) ==
    IF Has(result, "error") /\ result.error # "" THEN result.error ELSE MsgUnknown

\* lines 95-98: the catch block of handleFileUpload
CatchUploadError(d) == showError(d, MsgNetwork)

-----------------------------------------------------------------------------
(* Inputs *)

File(name, size) == [name |-> name, size |-> size]

\* a second file of a multi-file selection
ExtraFile == File(<<"x",".","m","4","a">>, 1)

\* e.target.files of the change events: nothing, one file, two files
ChangeLists ==
    { <<>>,
      << File(<<"c","l","i","p",".","W","A","V">>, MaxFileSize) >>,
      << File(<<"t","r","a","c","k",".","f","l","a","c">>, 1), ExtraFile >> }

\* e.dataTransfer.files of the drop events
DropLists ==
    { <<>>,
      << File(<<"m","p","3">>, 1) >>,
      << File(<<"b",".","o","g","g">>, MaxFileSize + 1) >> }

FullStats == [mean_pitch |-> 220456, min_pitch |-> 150000, max_pitch |-> 300250]

\* bodies of the /upload response after response.json(): two well-formed
\* successes, a success without stats, three malformed successes (no
\* mean_pitch, no max_pitch, no duration) and three failures
Results ==
    { [success |-> TRUE, word |-> "hello", phonetic |-> "h@'loU", duration |-> 1234,
       plot |-> "iVBORw0", stats |-> FullStats],
      [success |-> TRUE, word |-> "world", phonetic |-> "w3:ld", duration |-> 2496,
       plot |-> "R0lGOD", stats |-> <<>>],
      [success |-> TRUE, word |-> "world", phonetic |-> "w3:ld", duration |-> 2496,
       plot |-> "R0lGOD"],
      [success |-> TRUE, word |-> "hello", phonetic |-> "h@'loU", duration |-> 1234,
       plot |-> "iVBORw0", stats |-> [min_pitch |-> 150000, max_pitch |-> 300250]],
      [success |-> TRUE, word |-> "hello", phonetic |-> "h@'loU", duration |-> 1234,
       plot |-> "iVBORw0", stats |-> [mean_pitch |-> 220456, min_pitch |-> 150000]],
      [success |-> TRUE, word |-> "hello", phonetic |-> "h@'loU",
       plot |-> "iVBORw0", stats |-> FullStats],
      [success |-> FALSE, error |-> "bad audio"],
      [success |-> FALSE],
      [success |-> FALSE, error |-> ""] }

-----------------------------------------------------------------------------
(* State machine *)

Init ==
    /\ dom = IdleDocument
    /\ fileInput = <<>>
    /\ audioPlayer = <<>>
    /\ urls = <<>>
    /\ requests = <<>>
    /\ issued = 0
    /\ lastEvent = [op |-> "init"]

\* lines 21-25: the user picks files in the file dialog.  (Here and in Drop the
\* run is cut off when MaxRequests uploads have reached fetch.)
Change(files) ==
    /\ fileInput' = files
    /\ IF Len(files) > 0
       THEN LET h == handleFileUpload(dom, requests, issued, files[1])
            IN  /\ h.issued <= MaxRequests
                /\ dom' = h.dom /\ requests' = h.requests /\ issued' = h.issued
       ELSE UNCHANGED <<dom, requests, issued>>
    /\ lastEvent' = [op |-> "change", files |-> files]
    /\ UNCHANGED <<audioPlayer, urls>>

\* lines 38-46
Drop(files) ==
    /\ IF Len(files) > 0
       THEN LET h == handleFileUpload(dom, requests, issued, files[1])
            IN  /\ h.issued <= MaxRequests
                /\ dom' = h.dom /\ requests' = h.requests /\ issued' = h.issued
       ELSE UNCHANGED <<dom, requests, issued>>
    /\ lastEvent' = [op |-> "drop", files |-> files]
    /\ UNCHANGED <<fileInput, audioPlayer, urls>>

\* the run at position i has returned
Remove(rs, i) == SubSeq(rs, 1, i - 1) \o SubSeq(rs, i + 1, Len(rs))

\* the run at position i after its await rejected: lines 95-98 do not call
\* fetch again, the run returns
OnRejected_Retry(rs, i) == [rs EXCEPT ![i].fetches = @ + 1]
OnRejected(rs, i) == Remove(rs, i)

\* line 80 or 85: fetch rejects (the request could not complete), or
\* response.json() rejects (the body is not JSON, the connection broke)
Rejects(i) ==
    /\ lastEvent' = [op |-> "rejects", req |-> requests[i]]
    /\ requests' = OnRejected(requests, i)
    /\ dom' = CatchUploadError(dom)
    /\ UNCHANGED <<fileInput, audioPlayer, urls, issued>>

\* line 85 resolves with null: result.success of line 87 throws a TypeError
JsonNull(i) ==
    /\ lastEvent' = [op |-> "jsonNull", req |-> requests[i]]
    /\ requests' = Remove(requests, i)
    /\ dom' = CatchUploadError(dom)
    /\ UNCHANGED <<fileInput, audioPlayer, urls, issued>>

\* lines 85-93: response.json() resolves with result
JsonResolves(i, result) ==
    /\ lastEvent' = [op |-> "json", req |-> requests[i], result |-> result]
    /\ requests' = Remove(requests, i)
    /\ IF result.success
       THEN LET r == displayResults(dom, audioPlayer, urls, result, requests[i].file)
            IN  /\ dom' = r.dom
                /\ audioPlayer' = r.audioPlayer
                /\ urls' = r.urls
       ELSE /\ dom' = showError(dom, ErrorText(result))
            /\ UNCHANGED <<audioPlayer, urls>>
    /\ UNCHANGED <<fileInput, issued>>

\* lines 166-168: the attached audio element plays to its end
Ended(k) ==
    /\ urls[audioPlayer[k].src].revoked < MaxEnded
    /\ urls' = [urls EXCEPT ![audioPlayer[k].src].revoked = @ + 1]
    /\ lastEvent' = [op |-> "ended", url |-> audioPlayer[k].src]
    /\ UNCHANGED <<dom, fileInput, audioPlayer, requests, issued>>

\* lines 198-216
resetApp_Staged ==
    /\ fileInput' = <<>>
    /\ IF fileInput # <<>>
       THEN UNCHANGED <<dom, audioPlayer>>
       ELSE dom' = hideAllSections(dom) /\ audioPlayer' = <<>>
    /\ lastEvent' = [op |-> "resetApp"]
    /\ UNCHANGED <<urls, requests, issued>>
resetApp_Abort ==
    /\ fileInput' = <<>>
    /\ dom' = hideAllSections(dom)
    /\ audioPlayer' = <<>>
    /\ requests' = <<>>
    /\ lastEvent' = [op |-> "resetApp"]
    /\ UNCHANGED <<urls, issued>>
resetApp_KeepPlayer ==
    /\ fileInput' = <<>>
    /\ dom' = hideAllSections(dom)
    /\ lastEvent' = [op |-> "resetApp"]
    /\ UNCHANGED <<audioPlayer, urls, requests, issued>>
resetApp ==
    /\ fileInput' = <<>>
    /\ dom' = hideAllSections(dom)
    /\ audioPlayer' = <<>>
    /\ lastEvent' = [op |-> "resetApp"]
    /\ UNCHANGED <<urls, requests, issued>>

Next ==
    \/ \E files \in ChangeLists : Change(files)
    \/ \E files \in DropLists : Drop(files)
    \/ \E i \in 1..Len(requests) : Rejects(i)
    \/ \E i \in 1..Len(requests) : JsonNull(i)
    \/ \E i \in 1..Len(requests), result \in Results : JsonResolves(i, result)
    \/ \E k \in 1..Len(audioPlayer) : Ended(k)
    \/ resetApp

Spec == Init /\ [][Next]_vars

TypeOK ==
    /\ \A s \in Sections : dom[s] \in {"none", "block"}
    /\ Len(requests) <= MaxRequests
    /\ issued \in 0..MaxRequests
    /\ Len(urls) <= issued
    /\ Len(audioPlayer) <= 1

-----------------------------------------------------------------------------
(* Validation on its own: the browser has put one file into the file input *)
(* and then delivers it, as a change event or as a drop.  The file is any  *)
(* name over NameAlphabet up to MaxNameLen characters with any size of     *)
(* NameSizes.                                                              *)

NameAlphabet == {"m", "p", "3", "M", "."}
Names == UNION { [1..n -> NameAlphabet] : n \in 0..MaxNameLen }
NameSizes == {0} \cup ((MaxFileSize - SizeSpread)..(MaxFileSize + SizeSpread))
NameFiles == { File(name, size) : name \in Names, size \in NameSizes }

InitNames ==
    /\ dom = IdleDocument
    /\ fileInput \in { <<f>> : f \in NameFiles }
    /\ audioPlayer = <<>>
    /\ urls = <<>>
    /\ requests = <<>>
    /\ issued = 0
    /\ lastEvent = [op |-> "init"]

NextNames ==
    \/ Change(fileInput)
    \/ Drop(fileInput)

SpecNames == InitNames /\ [][NextNames]_vars

-----------------------------------------------------------------------------
(* Vocabulary of the properties *)

\* the event e handed a file to handleFileUpload
IsAcquire(e) == e.op \in {"change", "drop"} /\ Len(e.files) > 0
AcquiredFile(e) == e.files[1]

\* the event e delivered a response body to the run of request e.req
IsResponse(e) == e.op = "json"

OnlyVisible(d, s) == VisibleSections(d) = {s}

ResultFields(d) ==
    <<d.wordText, d.phoneticText, d.meanPitch, d.pitchRange, d.duration,
      d.plotSrc, d.plotDisplay>>

HasDot(name) == \E k \in 1..Len(name) : name[k] = "."

\* the text after the final '.' of a name that has one
AfterFinalDot(name) ==
    LET k == CHOOSE i \in 1..Len(name) :
                 name[i] = "." /\ \A j \in (i+1)..Len(name) : name[j] # "."
    IN  SubSeq(name, k + 1, Len(name))

\* the extension rule as the specification words it
NameAccepted(name) ==
    HasDot(name) /\ toLowerCase(AfterFinalDot(name)) \in allowedExtensions

\* the upload just handed over was turned down for its format
FormatRejected == OnlyVisible(dom, "errorSection") /\ dom.errorMessage = MsgUnsupported

\* a success body that the rendering cannot digest
Malformed(result) ==
    \/ ~Has(result, "duration")
    \/ /\ Has(result, "stats")
       /\ DOMAIN result.stats # {}
       /\ ~({"mean_pitch", "min_pitch", "max_pitch"} \subseteq DOMAIN result.stats)

-----------------------------------------------------------------------------
(* Properties *)

\* C1: in every reachable state at most one of the loading, results and error
\* sections is visible; results and error are never visible together.
C1_AtMostOneSectionVisible ==
    /\ Cardinality(VisibleSections(dom)) <= 1
    /\ ~(Visible(dom, "resultsSection") /\ Visible(dom, "errorSection"))

\* an error is shown while a request is pending and an earlier result is rendered
C1_Witness ==
    /\ OnlyVisible(dom, "errorSection")
    /\ Len(requests) > 0
    /\ dom.wordText # ""

\* C2: an upload that fails validation ends in the Error state with the message
\* of its failure kind, issues no request and creates no object URL.
C2_RejectedUploadStaysLocal ==
    [][ (IsAcquire(lastEvent') /\ Validate(AcquiredFile(lastEvent')) # "ok")
        => /\ OnlyVisible(dom', "errorSection")
           /\ dom'.errorMessage =
                 (IF Validate(AcquiredFile(lastEvent')) = "format"
                  THEN MsgUnsupported ELSE MsgTooLarge)
           /\ requests' = requests
           /\ issued' = issued
           /\ urls' = urls
           /\ audioPlayer' = audioPlayer ]_vars

\* an oversized file was turned down while another upload was pending
C2_Witness ==
    /\ IsAcquire(lastEvent)
    /\ Validate(AcquiredFile(lastEvent)) = "size"
    /\ Len(requests) > 0
    /\ OnlyVisible(dom, "errorSection")

\* C3: the extension check accepts a name exactly when the text after its final
\* '.', lower-cased, is mp3, wav, ogg or m4a; a name without '.' is rejected.
C3_ExtensionRule ==
    IsAcquire(lastEvent)
    => (~FormatRejected <=> NameAccepted(AcquiredFile(lastEvent).name))

\* the part of C3 that the code meets: the rule for names that contain a '.'
ExtensionRuleForDottedNames ==
    (IsAcquire(lastEvent) /\ HasDot(AcquiredFile(lastEvent).name))
    => (~FormatRejected <=> NameAccepted(AcquiredFile(lastEvent).name))

\* C4: with an allowed extension, a size up to 16 MiB inclusive passes (the
\* upload goes to Loading and is sent) and a size of 16 MiB + 1 or more is
\* turned down with the size message.
C4_SizeBoundary ==
    ( /\ IsAcquire(lastEvent)
      /\ fileExtension(AcquiredFile(lastEvent).name) \in allowedExtensions )
    => LET f == AcquiredFile(lastEvent)
       IN  /\ f.size <= 16 * 1024 * 1024
              => /\ OnlyVisible(dom, "loadingSection")
                 /\ Len(requests) > 0
                 /\ requests[Len(requests)].file = f
           /\ f.size >= 16 * 1024 * 1024 + 1
              => /\ OnlyVisible(dom, "errorSection")
                 /\ dom.errorMessage = MsgTooLarge
                 /\ requests = <<>>

\* a file of exactly 16 MiB has been accepted
C4_Witness ==
    /\ IsAcquire(lastEvent)
    /\ AcquiredFile(lastEvent).size = 16777216
    /\ OnlyVisible(dom, "loadingSection")
    /\ Len(requests) = 1

\* C5: an upload that passes validation makes Loading the only visible section,
\* then issues exactly one request for its file; no other step issues a
\* request, and no run ever calls fetch a second time.
C5_OneRequestPerUpload ==
    [][ /\ (IsAcquire(lastEvent') /\ Validate(AcquiredFile(lastEvent')) = "ok")
           => /\ OnlyVisible(dom', "loadingSection")
              /\ issued' = issued + 1
              /\ Len(requests') = Len(requests) + 1
              /\ SubSeq(requests', 1, Len(requests)) = requests
              /\ requests'[Len(requests')].file = AcquiredFile(lastEvent')
              /\ requests'[Len(requests')].shown = {"loadingSection"}
        /\ ~(IsAcquire(lastEvent') /\ Validate(AcquiredFile(lastEvent')) = "ok")
           => issued' = issued
        /\ \A i \in 1..Len(requests') : requests'[i].fetches = 1 ]_vars

\* a second upload was sent while the first was still pending
C5_Witness ==
    /\ IsAcquire(lastEvent)
    /\ Len(requests) = 2
    /\ issued = 2
    /\ OnlyVisible(dom, "loadingSection")

\* C6 as stated: on success = false the Error state shows the server's error
\* string when there is one, the fallback when there is none; nothing is
\* rendered and no object URL is created.
C6_ServerErrorShownVerbatim ==
    [][ (IsResponse(lastEvent') /\ ~lastEvent'.result.success)
        => /\ OnlyVisible(dom', "errorSection")
           /\ dom'.errorMessage =
                 (IF Has(lastEvent'.result, "error")
                  THEN lastEvent'.result.error ELSE MsgUnknown)
           /\ ResultFields(dom') = ResultFields(dom)
           /\ urls' = urls
           /\ audioPlayer' = audioPlayer ]_vars

\* C6 amended: on success = false the Error state shows the server's error
\* string when there is a non-empty one, the fallback when there is none or an
\* empty one; nothing is rendered and no object URL is created.
C6_ServerErrorOrFallback ==
    [][ (IsResponse(lastEvent') /\ ~lastEvent'.result.success)
        => /\ OnlyVisible(dom', "errorSection")
           /\ dom'.errorMessage =
                 (IF Has(lastEvent'.result, "error") /\ lastEvent'.result.error # ""
                  THEN lastEvent'.result.error ELSE MsgUnknown)
           /\ ResultFields(dom') = ResultFields(dom)
           /\ urls' = urls
           /\ audioPlayer' = audioPlayer ]_vars

\* the server reported a failure with an empty error string
C6_Witness ==
    /\ IsResponse(lastEvent)
    /\ ~lastEvent.result.success
    /\ Has(lastEvent.result, "error")
    /\ lastEvent.result.error = ""
    /\ OnlyVisible(dom, "errorSection")
    /\ dom.errorMessage = MsgUnknown

\* C7: when the request cannot complete, the Error state shows the network
\* message and the run ends without a second fetch: it made one fetch and is
\* no longer pending, and the number of fetch calls is unchanged.
C7_NetworkFailureNoRetry ==
    [][ lastEvent'.op = "rejects"
        => /\ OnlyVisible(dom', "errorSection")
           /\ dom'.errorMessage = MsgNetwork
           /\ lastEvent'.req.fetches = 1
           /\ \A i \in 1..Len(requests') : requests'[i].id # lastEvent'.req.id
           /\ Len(requests') = Len(requests) - 1
           /\ issued' = issued ]_vars

\* a request failed in transit after an earlier upload had been rendered
C7_Witness ==
    /\ lastEvent.op = "rejects"
    /\ OnlyVisible(dom, "errorSection")
    /\ dom.errorMessage = MsgNetwork
    /\ Len(audioPlayer) = 1

\* C8: a success body that cannot be rendered ends in the Error state with the
\* display message, not the network message, and the results section hidden.
C8_RenderFailureCaught ==
    (IsResponse(lastEvent) /\ lastEvent.result.success /\ Malformed(lastEvent.result))
    => /\ OnlyVisible(dom, "errorSection")
       /\ dom.errorMessage = MsgDisplay
       /\ dom.errorMessage # MsgNetwork
       /\ ~Visible(dom, "resultsSection")

\* a success body without duration was delivered
C8_Witness ==
    /\ IsResponse(lastEvent)
    /\ lastEvent.result.success
    /\ ~Has(lastEvent.result, "duration")
    /\ dom.errorMessage = MsgDisplay
    /\ OnlyVisible(dom, "errorSection")

\* C9: a well-formed success body whose stats is absent or empty ends in the
\* Results state with mean pitch and pitch range "N/A" and the duration
\* formatted to two decimals.
C9_PlaceholderStats ==
    ( /\ IsResponse(lastEvent)
      /\ lastEvent.result.success
      /\ Has(lastEvent.result, "duration")
      /\ (~Has(lastEvent.result, "stats") \/ DOMAIN lastEvent.result.stats = {}) )
    => /\ OnlyVisible(dom, "resultsSection")
       /\ dom.meanPitch = "N/A"
       /\ dom.pitchRange = "N/A"
       /\ dom.duration = toFixed(lastEvent.result.duration, 2) \o SecondsSuffix

\* a success body with stats = {} and duration 2.496 was rendered
C9_Witness ==
    /\ IsResponse(lastEvent)
    /\ lastEvent.result.success
    /\ Has(lastEvent.result, "stats")
    /\ DOMAIN lastEvent.result.stats = {}
    /\ dom.meanPitch = "N/A"
    /\ dom.duration = "2.50 sec"
    /\ OnlyVisible(dom, "resultsSection")

\* C10: right after resetApp no section is visible, the file input is empty
\* and no audio element is attached to the player mount point.
C10_ResetEndsIdle ==
    lastEvent.op = "resetApp"
    => /\ VisibleSections(dom) = {}
       /\ fileInput = <<>>
       /\ audioPlayer = <<>>

\* resetApp ran while a request was pending and after an audio player had
\* been attached
C10_Witness ==
    /\ lastEvent.op = "resetApp"
    /\ Len(requests) > 0
    /\ Len(urls) > 0
    /\ VisibleSections(dom) = {}

-----------------------------------------------------------------------------
(* Object URLs *)

\* the object URLs (indices of urls) never revoked, and those revoked
LiveHandles(us) == { h \in 1..Len(us) : us[h].revoked = 0 }
ReleasedHandles(us) == { h \in 1..Len(us) : us[h].revoked > 0 }

\* the object URLs of the audio elements attached to the mount point
AttachedHandles(player) == { player[k].src : k \in 1..Len(player) }

\* C11: resetApp is idempotent: a resetApp that follows a resetApp changes
\* nothing (document, file input, player, live and released handles, pending
\* requests).
C11_ResetIdempotent ==
    [][ (lastEvent.op = "resetApp" /\ lastEvent'.op = "resetApp")
        => /\ dom' = dom
           /\ fileInput' = fileInput
           /\ audioPlayer' = audioPlayer
           /\ LiveHandles(urls') = LiveHandles(urls)
           /\ ReleasedHandles(urls') = ReleasedHandles(urls)
           /\ requests' = requests ]_vars

\* resetApp ran with a file selected, a request pending and a handle in existence
C11_Witness ==
    /\ lastEvent.op = "resetApp"
    /\ fileInput = <<>>
    /\ VisibleSections(dom) = {}
    /\ audioPlayer = <<>>
    /\ Len(requests) = 1
    /\ LiveHandles(urls) # {}

\* C12: every object URL created is eventually released.  The only revoke is
\* in the 'ended' listener of the audio element that holds the URL, and an
\* element taken off the mount point is never played again; so the claim needs
\* every URL that is no longer attached to have been revoked.
C12_NoLeakedHandle ==
    \A h \in LiveHandles(urls) : h \in AttachedHandles(audioPlayer)

\* what makes a detached live URL a leak: no step revokes a URL that is not
\* attached
DetachedNeverRevoked ==
    [][ \A h \in 1..Len(urls) :
          h \notin AttachedHandles(audioPlayer) => urls'[h] = urls[h] ]_vars

\* C13: no object URL is revoked more than once.
C13_RevokedAtMostOnce ==
    \A h \in 1..Len(urls) : urls[h].revoked <= 1

\* C14: when an attached audio element is discarded (by a render or by
\* resetApp) its object URL is released in that step, and at most one
\* unreleased object URL exists at any time.
C14_DiscardReleases ==
    /\ [][ \A h \in AttachedHandles(audioPlayer) :
             h \notin AttachedHandles(audioPlayer') => urls'[h].revoked > 0 ]_vars
    /\ [](Cardinality(LiveHandles(urls)) <= 1)

-----------------------------------------------------------------------------
(* Overlapping uploads *)

\* the handlers that deliver the outcome of a pending request
DeliveryOps == {"json", "rejects", "jsonNull"}

\* the request numbered id is pending in rs
PendingIn(rs, id) == \E i \in 1..Len(rs) : rs[i].id = id

\* what a well-formed success body puts into the result regions
FieldsOf(result) ==
    << result.word,
       result.phonetic,
       IF Has(result, "stats") /\ DOMAIN result.stats # {}
       THEN toFixed(result.stats.mean_pitch, 1) \o " Hz" ELSE "N/A",
       IF Has(result, "stats") /\ DOMAIN result.stats # {}
       THEN toFixed(result.stats.min_pitch, 1) \o " - "
            \o toFixed(result.stats.max_pitch, 1) \o " Hz"
       ELSE "N/A",
       toFixed(result.duration, 2) \o SecondsSuffix,
       "data:image/png;base64," \o result.plot,
       "block" >>

WellFormedResults == { result \in Results : result.success /\ ~Malformed(result) }

\* C15: at most one request is awaiting its response at any time.
C15_AtMostOnePending == Len(requests) <= 1

\* C16: once every outstanding response has been delivered, what is displayed
\* is the outcome of the most recently acquired candidate: the delivery that
\* leaves no request pending, whose outcome is then on display, is that of the
\* request issued last.
C16_LatestAcquireWins ==
    (requests = <<>> /\ lastEvent.op \in DeliveryOps)
    => lastEvent.req.id = issued

\* C17: whenever the results section is visible, the result regions hold the
\* rendering of one single response and one audio element is attached; the
\* section becomes visible only by the delivery of a well-formed success,
\* which writes every region from that response and attaches a new player for
\* the file of the answered request, and while it stays visible no other step
\* changes the regions or the player.
C17_RenderIsAtomic ==
    /\ [](Visible(dom, "resultsSection")
          => /\ \E result \in WellFormedResults : ResultFields(dom) = FieldsOf(result)
             /\ Len(audioPlayer) = 1)
    /\ [][ Visible(dom', "resultsSection")
           => IF lastEvent'.op = "json"
              THEN /\ lastEvent'.result \in WellFormedResults
                   /\ ResultFields(dom') = FieldsOf(lastEvent'.result)
                   /\ Len(urls') = Len(urls) + 1
                   /\ audioPlayer' = << [src |-> Len(urls')] >>
                   /\ urls'[Len(urls')].file = lastEvent'.req.file
              ELSE /\ Visible(dom, "resultsSection")
                   /\ ResultFields(dom') = ResultFields(dom)
                   /\ audioPlayer' = audioPlayer
                   /\ Len(urls') = Len(urls)
                   /\ \A h \in 1..Len(urls) : urls'[h].file = urls[h].file ]_vars

\* the second of two uploads has been rendered after the first
C17_Witness ==
    /\ Visible(dom, "resultsSection")
    /\ lastEvent.op = "json"
    /\ issued = 2
    /\ Len(urls) = 2
    /\ dom.meanPitch = "N/A"

\* C18: whenever the error section is visible the error message is not empty.
C18_ErrorHasMessage ==
    Visible(dom, "errorSection") => dom.errorMessage # ""

\* the server reported a failure with an empty error string while another
\* request was pending
C18_Witness ==
    /\ Visible(dom, "errorSection")
    /\ lastEvent.op = "json"
    /\ ~lastEvent.result.success
    /\ Has(lastEvent.result, "error")
    /\ lastEvent.result.error = ""
    /\ Len(requests) = 1

\* C19 as stated: in every state with a pending request the loading section is
\* the visible section.
C19_LoadingWhilePending ==
    Len(requests) > 0 => OnlyVisible(dom, "loadingSection")

\* C19 amended: an accepted upload leaves Loading the only visible section,
\* and with a request pending it stays so through every step that is not a
\* rejected upload, the delivery of a response or resetApp.
C19_LoadingUntilNextOutcome ==
    [][ /\ (IsAcquire(lastEvent') /\ Validate(AcquiredFile(lastEvent')) = "ok")
           => /\ OnlyVisible(dom', "loadingSection")
              /\ Len(requests') > 0
        /\ ( /\ Len(requests) > 0
             /\ OnlyVisible(dom, "loadingSection")
             /\ lastEvent'.op \notin DeliveryOps \cup {"resetApp"}
             /\ ~(IsAcquire(lastEvent') /\ Validate(AcquiredFile(lastEvent')) # "ok") )
           => /\ OnlyVisible(dom', "loadingSection")
              /\ Len(requests') >= Len(requests) ]_vars

\* the audio of an earlier upload played to its end while a later upload was
\* loading
C19_Witness ==
    /\ lastEvent.op = "ended"
    /\ Len(requests) > 0
    /\ OnlyVisible(dom, "loadingSection")

-----------------------------------------------------------------------------
(* The remote endpoint answers or fails every request *)

\* the outcome of the request numbered id is delivered
Deliver(id) ==
    \E i \in 1..Len(requests) :
        /\ requests[i].id = id
        /\ \/ Rejects(i)
           \/ JsonNull(i)
           \/ \E result \in Results : JsonResolves(i, result)

\* The steps that take part in the life of a request: the 'ended' event of
\* the audio element is left out, Ended writes urls only (EndedTouchesUrlsOnly)
\* and no guard of the other steps reads urls.
NextFair ==
    \/ \E files \in ChangeLists : Change(files)
    \/ \E files \in DropLists : Drop(files)
    \/ \E i \in 1..Len(requests) : Rejects(i)
    \/ \E i \in 1..Len(requests) : JsonNull(i)
    \/ \E i \in 1..Len(requests), result \in Results : JsonResolves(i, result)
    \/ resetApp

\* the remote endpoint eventually answers or fails every pending request
FairSpec ==
    Init /\ [][NextFair]_vars /\ \A id \in 1..MaxRequests : WF_vars(Deliver(id))

\* an 'ended' event changes nothing but the revocation count of its URL
EndedTouchesUrlsOnly ==
    [][ lastEvent'.op = "ended"
        => /\ UNCHANGED <<dom, fileInput, audioPlayer, requests, issued>>
           /\ \A h \in 1..Len(urls) : urls'[h].file = urls[h].file ]_vars

\* C20: every request issued is followed by exactly one outcome: it stays
\* pending until a delivery for it ends in Results or Error, whatever resetApp
\* or other uploads do meanwhile; it is eventually delivered, it is never
\* pending again, and the loading section does not stay visible forever.
C20_EverySubmitCompletes ==
    /\ [][ \A id \in 1..MaxRequests :
             /\ (PendingIn(requests, id) /\ ~PendingIn(requests', id))
                => /\ lastEvent'.op \in DeliveryOps
                   /\ lastEvent'.req.id = id
                   /\ \/ OnlyVisible(dom', "resultsSection")
                      \/ OnlyVisible(dom', "errorSection")
             /\ (~PendingIn(requests, id) /\ PendingIn(requests', id))
                => (issued = id - 1 /\ issued' = id) ]_vars
    /\ \A id \in 1..MaxRequests :
          PendingIn(requests, id) ~> ~PendingIn(requests, id)
    /\ Visible(dom, "loadingSection") ~> ~Visible(dom, "loadingSection")

\* the response to an upload made through the file dialog ended in Results
\* after the file input had been emptied again (by resetApp or by an empty
\* selection)
C20_Witness ==
    /\ lastEvent.op = "json"
    /\ OnlyVisible(dom, "resultsSection")
    /\ fileInput = <<>>
    /\ lastEvent.req.file = File(<<"c","l","i","p",".","W","A","V">>, MaxFileSize)
    /\ requests = <<>>

====
